---- MODULE Spec2Model ----
(***************************************************************************)
(* Model of the incremental ownership refresh (refresh-owners.cjs, carried *)
(* in src/scheduled-refresh.cjs from line 44 on): the chain client wocGet  *)
(* with its adaptive delay, the output classifier findJigVout, the forward *)
(* tracer traceForward, processNFT and the driver loop with its retry      *)
(* rounds, summary and saveLedger checkpoints.                             *)
(*                                                                         *)
(* A transaction id is the position of the transaction on the spend chain  *)
(* of the asset being processed (1 = the transaction the ledger records as *)
(* lastTx when the ledger is first loaded).  Values are in satoshis.       *)
(***************************************************************************)
EXTENDS Integers, Sequences, FiniteSets, TLC

VARIABLES
    ledger,       \* the in-memory ledger object: nfts and owners
    disk,         \* ledger.json as last written by saveLedger
    callDelayMs,  \* the adaptive delay
    chain,        \* the provider's view of each asset's spend chain
    drv,          \* locals of the driver (the async main function)
    frm,          \* frame of the running processNFT/traceForward/wocGet
    out,          \* what the final summary printed
    hist,         \* bookkeeping of the pass, used to state the properties
    call,         \* the last wocGet call of the chain client taken alone
    fs,           \* what becomes of a write of the ledger file
    probe         \* a transaction given to the classifier and its copies

vars == <<ledger, disk, callDelayMs, chain, drv, frm, out, hist, call, fs, probe>>

----------------------------------------------------------------------------
(* Bounds of the model                                                     *)

MaxSpends == 2     \* transactions behind the recorded positions, all chains
MaxPasses == 2     \* refresh passes in one behaviour
MaxFaults == 2     \* lookups the provider fails (error or missing transaction)
MaxOuts == 2       \* outputs of a transaction given to the classifier alone

----------------------------------------------------------------------------
(* Program constants                                                       *)

MAX_RETRIES == 3
BASE_BACKOFF_MS == 2000
INITIAL_DELAY_MS == 300
MIN_DELAY_MS == 200
MAX_DELAY_MS == 3000
DELAY_STEP_MS == 50
HOP_CEILING == 100
RETRY_ROUNDS == 2
SAVE_EVERY == 10
RETRY_COOLDOWN_MS == 5000
ORDERLOCK_MAX_SAT == 100000   \* 0.001 BSV
DUST_MAX_SAT == 1000          \* 0.00001 BSV

Addrs == {"A", "B"}
MINTING_ADDR == "A"
NFT_VOUT == 3
Null == "null"       \* JavaScript null / absent address
Undefined == -1      \* JavaScript undefined / null for numbers and txids

Min(a, b) == IF a <= b THEN a ELSE b
Max(a, b) == IF a >= b THEN a ELSE b

IsPrefix(s, t) == Len(s) <= Len(t) /\ SubSeq(t, 1, Len(s)) = s

Contains(s, x) == \E i \in DOMAIN s : s[i] = x

----------------------------------------------------------------------------
(* Transactions and the output classifier                                  *)

Output(n, opReturn, type, value, addr) ==
    [n |-> n, opReturn |-> opReturn, type |-> type, value |-> value, addr |-> addr]

\* The kinds of transaction that occur on a spend chain: a standard dust
\* output to an address, an order-lock output, or a sweep without any state
\* output.  Every kind but the sweep starts with a metadata output.
TxKinds == Addrs \cup {"lock", "sweep"}

\* A mint transaction carries the asset at output NFT_VOUT, as dust to the
\* minting address.  Nothing in the code says what its outputs before that
\* one are: payments ("mint"), or the dust output of another object of the
\* protocol among them ("mintJigs").
MintKinds == {"mint", "mintJigs"}

TxOfKind(k, txid) ==
    [blockheight |-> txid,
     vout |-> IF k \in MintKinds
                THEN << Output(0, TRUE, "nulldata", 0, Null),
                        Output(1, FALSE, "pubkeyhash",
                               IF k = "mintJigs" THEN 1 ELSE 250000, MINTING_ADDR),
                        Output(2, FALSE, "pubkeyhash", 250000, MINTING_ADDR),
                        Output(NFT_VOUT, FALSE, "pubkeyhash", 1, MINTING_ADDR) >>
              ELSE IF k = "sweep"
                THEN << Output(0, FALSE, "pubkeyhash", 250000, "A") >>
              ELSE IF k = "lock"
                THEN << Output(0, TRUE, "nulldata", 0, Null),
                        Output(1, FALSE, "nonstandard", 1, Null),
                        Output(2, FALSE, "pubkeyhash", 250000, "A") >>
                ELSE << Output(0, TRUE, "nulldata", 0, Null),
                        Output(1, FALSE, "pubkeyhash", 1, k),
                        Output(2, FALSE, "pubkeyhash", 250000, k) >>]

NoJig == [vout |-> Undefined, addr |-> Null, isOrderLock |-> FALSE]

IsOrderLockOut(o) ==
    ~o.opReturn /\ o.type = "nonstandard" /\ o.value <= ORDERLOCK_MAX_SAT

IsDustOut(o) ==
    ~o.opReturn /\ o.addr # Null /\ o.value > 0 /\ o.value <= DUST_MAX_SAT

\* The dust output is looked for before the order lock.
findJigVout_DustFirst(tx) ==
    LET locks == {i \in DOMAIN tx.vout : IsOrderLockOut(tx.vout[i])}
        dusts == {i \in DOMAIN tx.vout : IsDustOut(tx.vout[i])}
        First(S) == CHOOSE i \in S : \A j \in S : i <= j
    IN  IF dusts # {}
          THEN [vout |-> tx.vout[First(dusts)].n, addr |-> tx.vout[First(dusts)].addr,
                isOrderLock |-> FALSE]
        ELSE IF locks # {}
          THEN [vout |-> tx.vout[First(locks)].n, addr |-> Null, isOrderLock |-> TRUE]
          ELSE NoJig

findJigVout(tx) ==
    LET locks == {i \in DOMAIN tx.vout : IsOrderLockOut(tx.vout[i])}
        dusts == {i \in DOMAIN tx.vout : IsDustOut(tx.vout[i])}
        First(S) == CHOOSE i \in S : \A j \in S : i <= j
    IN  IF locks # {}
          THEN [vout |-> tx.vout[First(locks)].n, addr |-> Null, isOrderLock |-> TRUE]
        ELSE IF dusts # {}
          THEN [vout |-> tx.vout[First(dusts)].n, addr |-> tx.vout[First(dusts)].addr,
                isOrderLock |-> FALSE]
          ELSE NoJig

\* The loops of the two copies of the classifier, from output i of the
\* list on: the position of the first output the loop stops at, 0 when it
\* runs to the end of the list.
RECURSIVE orderLockLoop(_, _)
orderLockLoop(vout, i) ==
    IF i > Len(vout) THEN 0
    ELSE IF vout[i].opReturn THEN orderLockLoop(vout, i + 1)
    ELSE IF vout[i].type = "nonstandard" /\ vout[i].value <= ORDERLOCK_MAX_SAT THEN i
    ELSE orderLockLoop(vout, i + 1)

RECURSIVE dustLoop(_, _)
dustLoop(vout, i) ==
    IF i > Len(vout) THEN 0
    ELSE IF vout[i].opReturn THEN dustLoop(vout, i + 1)
    ELSE IF vout[i].addr # Null /\ vout[i].value > 0 /\ vout[i].value <= DUST_MAX_SAT
      THEN i
    ELSE dustLoop(vout, i + 1)

\* The classifier inlined in traceNFT, index-owners.cjs lines 85-112:
\* newVout stays null (Undefined) when neither loop finds an output.
traceNFT_classify(spendTx) ==
    LET l == orderLockLoop(spendTx.vout, 1)
        d == IF l = 0 THEN dustLoop(spendTx.vout, 1) ELSE 0
    IN  [newVout     |-> IF l # 0 THEN spendTx.vout[l].n
                         ELSE IF d # 0 THEN spendTx.vout[d].n ELSE Undefined,
         newAddr     |-> IF d # 0 THEN spendTx.vout[d].addr ELSE Null,
         isOrderLock |-> l # 0]

\* findJigVout of the lastVout backfill script (lines 41-56 of the
\* script): the output index, or null.
backfill_findJigVout(tx) ==
    LET l == orderLockLoop(tx.vout, 1)
        d == dustLoop(tx.vout, 1)
    IN  IF l # 0 THEN tx.vout[l].n
        ELSE IF d # 0 THEN tx.vout[d].n
        ELSE Undefined

----------------------------------------------------------------------------
(* The provider's spend chain of one asset                                 *)
(*   txs  : the kinds of the transactions known so far, txs[i] being the   *)
(*          transaction with id i;                                         *)
(*   more : "open" while the provider has not yet said what follows the    *)
(*          last of them, "end" when its state output is unspent, or the   *)
(*          kind that every further transaction of the chain has.          *)

CycKinds == {"B", "lock"}

HasTx(c, txid) == txid >= 1 /\ (txid <= Len(c.txs) \/ c.more \in CycKinds)

KindAt(c, txid) == IF txid <= Len(c.txs) THEN c.txs[txid] ELSE c.more

TxAt(c, txid) == TxOfKind(KindAt(c, txid), txid)

\* The output of transaction txid that carries the asset: NFT_VOUT of the
\* mint, the output the classifier selects of any other transaction.
StateVout(c, txid) ==
    IF KindAt(c, txid) \in MintKinds THEN NFT_VOUT
    ELSE findJigVout(TxAt(c, txid)).vout

\* Output (txid, vout) is known to be spent, by transaction txid + 1.  Of
\* the outputs of a chain's transactions only the one that carries the
\* asset is spent.
IsSpent(c, txid, vout) ==
    /\ HasTx(c, txid) /\ HasTx(c, txid + 1)
    /\ StateVout(c, txid) = vout

\* Output (txid, vout) is the last known state output and nothing is known
\* about what follows it.
\* The chains are bounded together: MaxSpends transactions behind the
\* recorded positions, or one chain that never ends.
Spends(chains) ==
    LET RECURSIVE Sum(_)
        Sum(S) == IF S = {} THEN 0
                  ELSE LET n == CHOOSE x \in S : TRUE
                       IN  Max(0, Len(chains[n].txs) - 1) + Sum(S \ {n})
    IN  IF \E n \in DOMAIN chains : chains[n].more \in CycKinds
          THEN MaxSpends ELSE Sum(DOMAIN chains)

IsOpenTip(c, txid, vout) ==
    /\ c.more = "open" /\ txid = Len(c.txs)
    /\ findJigVout(TxAt(c, txid)) # NoJig
    /\ StateVout(c, txid) = vout

----------------------------------------------------------------------------
(* The ledger                                                              *)

Event(txid, type, from, to, blockHeight) ==
    [txid |-> txid, type |-> type, from |-> from, to |-> to,
     blockHeight |-> blockHeight]

removeFromOwnerIndex(owners, addr, num) ==
    IF addr \notin DOMAIN owners THEN owners
    ELSE LET Keep(n) == n # num
             rest == SelectSeq(owners[addr], Keep)
         IN  IF rest = << >>
               THEN [a \in DOMAIN owners \ {addr} |-> owners[a]]
               ELSE [owners EXCEPT ![addr] = rest]

addToOwnerIndex(owners, addr, num) ==
    LET have == IF addr \in DOMAIN owners THEN owners[addr] ELSE << >>
        list == IF Contains(have, num) THEN have ELSE Append(have, num)
    IN  [a \in DOMAIN owners \cup {addr} |-> IF a = addr THEN list ELSE owners[a]]

\* processNFT, lines 249-256: the spending transaction has no state output.
markBurned(l, num, spendingTxid, spendTx) ==
    LET nft == l.nfts[num]
    IN  [l EXCEPT !.nfts[num] =
            [nft EXCEPT !.burned = TRUE,
                        !.burnTx = spendingTxid,
                        !.transfers = Append(nft.transfers,
                            Event(spendingTxid, "burn", nft.owner, Null,
                                  spendTx.blockheight))]]

\* The record is updated and the owner index is left as it was.
applyResult_StaleIndex(l, num, result, allNewTransfers) ==
    LET nft == l.nfts[num]
    IN  [l EXCEPT !.nfts[num] =
            [nft EXCEPT !.transfers = nft.transfers \o allNewTransfers,
                        !.owner = result.owner,
                        !.lastTx = result.lastTx,
                        !.lastVout = result.lastVout]]

\* The history is replaced by the new events instead of being extended.
applyResult_Rewrite(l, num, result, allNewTransfers) ==
    LET nft      == l.nfts[num]
        oldOwner == nft.owner
        owners1  == IF oldOwner # result.owner
                      THEN addToOwnerIndex(
                               removeFromOwnerIndex(l.owners, oldOwner, num),
                               result.owner, num)
                      ELSE l.owners
    IN  [nfts |-> [l.nfts EXCEPT ![num] =
                      [nft EXCEPT !.transfers = allNewTransfers,
                                  !.owner = result.owner,
                                  !.lastTx = result.lastTx,
                                  !.lastVout = result.lastVout]],
         owners |-> owners1]

\* processNFT, lines 279-287: fold the result of the trace into the record
\* and the owner index.
applyResult(l, num, result, allNewTransfers) ==
    LET nft      == l.nfts[num]
        oldOwner == nft.owner
        owners1  == IF oldOwner # result.owner
                      THEN addToOwnerIndex(
                               removeFromOwnerIndex(l.owners, oldOwner, num),
                               result.owner, num)
                      ELSE l.owners
    IN  [nfts |-> [l.nfts EXCEPT ![num] =
                      [nft EXCEPT !.transfers = nft.transfers \o allNewTransfers,
                                  !.owner = result.owner,
                                  !.lastTx = result.lastTx,
                                  !.lastVout = result.lastVout]],
         owners |-> owners1]

----------------------------------------------------------------------------
(* The adaptive delay                                                      *)

\* A success lowers the delay without a floor.
onSuccess_NoFloor(d) == d - DELAY_STEP_MS

onSuccess(d) == IF d > MIN_DELAY_MS THEN Max(MIN_DELAY_MS, d - DELAY_STEP_MS) ELSE d

\* A rate-limit answer leaves the delay as it is.
onThrottle_Ignored(d) == d

onThrottle(d) == Min(MAX_DELAY_MS, d * 2)

----------------------------------------------------------------------------
(* The forward tracer                                                      *)

\* The first spend is recorded whatever its state output is.
firstTransfers_EscrowEvent(owner, spendingTxid, spendTx, jig) ==
    IF jig.addr # owner
      THEN << Event(spendingTxid, "send", owner, jig.addr, spendTx.blockheight) >>
      ELSE << >>

\* processNFT, lines 261-274: the transfer of the first spend, if any.
firstTransfers(owner, spendingTxid, spendTx, jig) ==
    IF ~jig.isOrderLock /\ jig.addr # Null /\ jig.addr # owner
      THEN << Event(spendingTxid, "send", owner, jig.addr, spendTx.blockheight) >>
      ELSE << >>

firstOwner(owner, jig) ==
    IF ~jig.isOrderLock /\ jig.addr # Null /\ jig.addr # owner
      THEN jig.addr ELSE owner

\* A spend to the holder itself is recorded as a transfer.
traceHop_SelfSend(f, spendingTxid, spendTx, jig) ==
    LET moved == ~jig.isOrderLock /\ jig.addr # Null
    IN  [f EXCEPT
           !.newTransfers = IF moved
                              THEN Append(f.newTransfers,
                                     Event(spendingTxid, "send", f.owner,
                                           jig.addr, spendTx.blockheight))
                              ELSE f.newTransfers,
           !.owner = IF moved THEN jig.addr ELSE f.owner,
           !.txid = spendingTxid,
           !.vout = jig.vout]

\* traceForward, lines 197-209: one classified spend moves the cursor and,
\* when the holder changes, appends a send event.
traceHop(f, spendingTxid, spendTx, jig) ==
    LET moved == ~jig.isOrderLock /\ jig.addr # Null /\ jig.addr # f.owner
    IN  [f EXCEPT
           !.newTransfers = IF moved
                              THEN Append(f.newTransfers,
                                     Event(spendingTxid, "send", f.owner,
                                           jig.addr, spendTx.blockheight))
                              ELSE f.newTransfers,
           !.owner = IF moved THEN jig.addr ELSE f.owner,
           !.txid = spendingTxid,
           !.vout = jig.vout]

\* The ceiling is off by one.
traceContinues_OffByOne(hops) == hops <= HOP_CEILING

\* traceForward, line 183: the loop condition.
traceContinues(hops) == hops < HOP_CEILING

\* traceForward, line 212.
traceResult(f) ==
    [owner |-> f.owner, lastTx |-> f.txid, lastVout |-> f.vout,
     newTransfers |-> f.newTransfers, hops |-> f.hops]

----------------------------------------------------------------------------
(* The driver: main pass, retry rounds, summary                            *)

RECURSIVE SortedSeq(_)
SortedSeq(S) ==
    IF S = {} THEN << >>
    ELSE LET m == CHOOSE x \in S : \A y \in S : x <= y
         IN  << m >> \o SortedSeq(S \ {m})

\* The state the synchronous code between two awaits works on; exc is the
\* exception it is unwinding with, if any.
State(l, d, h) ==
    [ledger |-> l, disk |-> disk, drv |-> d, out |-> out, hist |-> h,
     exc |-> "none"]

\* The ledger file while writeFileSync has truncated it and not yet written
\* the whole document.
Torn == [torn |-> TRUE]

\* saveLedger, lines 84-87 (the timestamp is not modelled): writeFileSync
\* opens the file itself for writing, which truncates it, and writes the
\* document in place.  The write completes, or it throws and leaves the
\* file as it was, or the process is killed in the middle of it.
saveLedger(S) ==
    IF S.exc # "none" THEN S
    ELSE IF fs = "ok" THEN [S EXCEPT !.disk = S.ledger]
    ELSE IF fs = "fails" THEN [S EXCEPT !.exc = "write"]
    ELSE [S EXCEPT !.disk = Torn, !.exc = "kill"]

\* Final summary and final save, lines 356-372.
summary(S) ==
    LET d == S.drv
        burnedNow == {n \in DOMAIN S.ledger.nfts : S.ledger.nfts[n].burned}
    IN  saveLedger(
          [S EXCEPT !.out = [printed     |-> TRUE,
                             checked     |-> d.checked,
                             changed     |-> d.changed,
                             burned      |-> d.burned,
                             totalBurned |-> Cardinality(burnedNow),
                             errors      |-> Len(d.failedNFTs),
                             owners      |-> Cardinality(DOMAIN S.ledger.owners),
                             unresolved  |-> d.failedNFTs],
                    !.drv.phase = "done"])

\* One retry round more than the loop allows.
retryOrSummary_ExtraRound(S, round) ==
    IF round <= RETRY_ROUNDS + 1 /\ Len(S.drv.failedNFTs) > 0
      THEN [S EXCEPT !.drv.phase = "retry",
                     !.drv.round = round,
                     !.drv.list = S.drv.failedNFTs,
                     !.drv.failedNFTs = << >>,
                     !.drv.i = 1,
                     !.hist.pause = @ + RETRY_COOLDOWN_MS]
      ELSE summary(S)

\* Head of the retry loop, lines 332-336: another round, after the
\* cool-down sleep, or the summary.
retryOrSummary(S, round) ==
    IF round <= RETRY_ROUNDS /\ Len(S.drv.failedNFTs) > 0
      THEN [S EXCEPT !.drv.phase = "retry",
                     !.drv.round = round,
                     !.drv.list = S.drv.failedNFTs,
                     !.drv.failedNFTs = << >>,
                     !.drv.i = 1,
                     !.hist.pause = @ + RETRY_COOLDOWN_MS]
      ELSE summary(S)

\* The for loops, lines 305/338: next asset, or what follows the loop
\* (line 328 after the main pass, line 353 after a retry round).
advance(S) ==
    IF S.exc # "none" THEN S
    ELSE IF S.drv.i < Len(S.drv.list)
      THEN [S EXCEPT !.drv.i = S.drv.i + 1]
      ELSE LET S1 == saveLedger(S)
           IN  IF S1.exc # "none" THEN S1
               ELSE retryOrSummary(S1, IF S.drv.phase = "main"
                                         THEN 1 ELSE S.drv.round + 1)

\* The catch of the main loop, lines 321-325.
catchMain(S, num) ==
    [S EXCEPT !.exc = "none",
              !.drv.errors = S.drv.errors + 1,
              !.drv.failedNFTs = Append(S.drv.failedNFTs, num)]

\* Body of the main loop after processNFT settled, lines 308-325; the
\* periodic saveLedger is inside the try block.
settleMain(S, num, res) ==
    LET d == S.drv
        Saved(S1) == LET S2 == saveLedger(S1)
                     IN  IF S2.exc = "write" THEN catchMain(S2, num) ELSE S2
    IN  IF res = "error"
          THEN [S EXCEPT !.drv.errors = d.errors + 1,
                         !.drv.failedNFTs = Append(d.failedNFTs, num)]
        ELSE IF res = "changed"
          THEN LET S1 == [S EXCEPT !.drv.changed = d.changed + 1]
               IN  IF (d.changed + 1) % SAVE_EVERY = 0 THEN Saved(S1) ELSE S1
        ELSE IF res = "burned"
          THEN LET S1 == [S EXCEPT !.drv.burned = d.burned + 1]
               IN  IF (d.burned + 1) % SAVE_EVERY = 0 THEN Saved(S1) ELSE S1
          ELSE S

\* An asset that fails in a retry round is not queued again.
settleRetry_Dropped(S, num, res) ==
    LET d == S.drv
    IN  IF res = "error"
          THEN S
        ELSE IF res = "changed"
          THEN [S EXCEPT !.drv.changed = d.changed + 1,
                         !.drv.errors = d.errors - 1]
          ELSE [S EXCEPT !.drv.errors = d.errors - 1]

\* Body of the retry loop after processNFT settled, lines 339-351.
settleRetry(S, num, res) ==
    LET d == S.drv
    IN  IF res = "error"
          THEN [S EXCEPT !.drv.failedNFTs = Append(d.failedNFTs, num)]
        ELSE IF res = "changed"
          THEN [S EXCEPT !.drv.changed = d.changed + 1,
                         !.drv.errors = d.errors - 1]
          ELSE [S EXCEPT !.drv.errors = d.errors - 1]

\* Bookkeeping: the outcome of the attempt, for the properties.
record(S, num, res) ==
    [S EXCEPT !.hist.res[num] = res,
              !.hist.fails = IF res = "error"
                               THEN @ \cup {<< num, S.drv.round >>} ELSE @]

settle(S, num, res) ==
    LET S1 == record(S, num, res)
    IN  advance(IF S.drv.phase = "main" THEN settleMain(S1, num, res)
                                         ELSE settleRetry(S1, num, res))

Idle ==
    [pc |-> "idle", num |-> 0, lastVout |-> Undefined,
     spendingTxid |-> Undefined, allNewTransfers |-> << >>,
     txid |-> Undefined, vout |-> Undefined, owner |-> Null,
     newTransfers |-> << >>, hops |-> 0]

\* processNFT settled with res on ledger l: the driver takes over.
Finish(l, d, h, num, res) ==
    LET S == settle(State(l, d, h), num, res)
    IN  /\ ledger' = S.ledger
        /\ disk' = S.disk
        /\ drv' = IF S.exc = "none" THEN S.drv
                  ELSE [S.drv EXCEPT !.phase = IF S.exc = "kill" THEN "killed"
                                                                 ELSE "crashed"]
        /\ out' = S.out
        /\ hist' = S.hist
        /\ frm' = Idle

\* processNFT goes on to its next provider request.
Proceed(l, f, h) ==
    /\ ledger' = l
    /\ frm' = f
    /\ hist' = h
    /\ UNCHANGED << disk, drv, out >>

----------------------------------------------------------------------------
(* processNFT and traceForward, from one provider request to the next      *)

NoTx == [blockheight |-> Undefined, vout |-> << >>]

\* traceForward, lines 183-185: loop again (ask for the spender of the
\* cursor) or return; on return processNFT applies the result, 277-291.
TraceLoop(f, h) ==
    IF traceContinues(f.hops)
      THEN Proceed(ledger, [f EXCEPT !.pc = "tspend"], h)
      ELSE Finish(applyResult(ledger, f.num, traceResult(f),
                              f.allNewTransfers \o f.newTransfers),
                  drv, h, f.num, "changed")

TraceReturn(f, h) ==
    Finish(applyResult(ledger, f.num, traceResult(f),
                       f.allNewTransfers \o f.newTransfers),
           drv, h, f.num, "changed")

\* resolveLastVout got its transaction, lines 168-172 and 233-235.
AfterResolve(tx, h) ==
    LET num == frm.num
        jig == IF tx = NoTx THEN NoJig ELSE findJigVout(tx)
    IN  IF jig = NoJig
          THEN Finish(ledger, drv, h, num, "error")
          ELSE Proceed([ledger EXCEPT !.nfts[num].lastVout = jig.vout],
                       [frm EXCEPT !.pc = "spend1", !.lastVout = jig.vout], h)

\* processNFT got the spender of the recorded output, lines 236-241.
AfterSpend1(spendingTxid, h) ==
    IF spendingTxid = Undefined
      THEN Finish(ledger, drv, h, frm.num, "unchanged")
      ELSE Proceed(ledger, [frm EXCEPT !.pc = "tx1",
                                       !.spendingTxid = spendingTxid], h)

\* The owner found at the first spend is written to the record before the
\* trace goes on.
AfterTx1_EagerOwner(spendTx, h) ==
    LET num == frm.num
        nft == ledger.nfts[num]
        jig == findJigVout(spendTx)
    IN  IF spendTx = NoTx
          THEN Finish(ledger, drv, h, num, "error")
        ELSE IF jig = NoJig
          THEN Finish(markBurned(ledger, num, frm.spendingTxid, spendTx),
                      drv, h, num, "burned")
          ELSE Proceed([ledger EXCEPT !.nfts[num].owner = firstOwner(nft.owner, jig)],
                       [frm EXCEPT
                            !.pc = "tspend",
                            !.allNewTransfers =
                                firstTransfers(nft.owner, frm.spendingTxid, spendTx, jig),
                            !.txid = frm.spendingTxid,
                            !.vout = jig.vout,
                            !.owner = firstOwner(nft.owner, jig),
                            !.newTransfers = << >>,
                            !.hops = 0], h)

\* processNFT got the first spending transaction, lines 242-276.
AfterTx1(spendTx, h) ==
    LET num == frm.num
        nft == ledger.nfts[num]
        jig == findJigVout(spendTx)
    IN  IF spendTx = NoTx
          THEN Finish(ledger, drv, h, num, "error")
        ELSE IF jig = NoJig
          THEN Finish(markBurned(ledger, num, frm.spendingTxid, spendTx),
                      drv, h, num, "burned")
          ELSE TraceLoop([frm EXCEPT
                            !.allNewTransfers =
                                firstTransfers(nft.owner, frm.spendingTxid, spendTx, jig),
                            !.txid = frm.spendingTxid,
                            !.vout = jig.vout,
                            !.owner = firstOwner(nft.owner, jig),
                            !.newTransfers = << >>,
                            !.hops = 0], h)

\* traceForward got the spender of the cursor, lines 185-190.
AfterTraceSpend(spendingTxid, h) ==
    IF spendingTxid = Undefined
      THEN TraceReturn(frm, h)
      ELSE Proceed(ledger, [frm EXCEPT !.pc = "ttx",
                                       !.spendingTxid = spendingTxid,
                                       !.hops = frm.hops + 1], h)

\* traceForward got the spending transaction, lines 191-210.
AfterTraceTx(spendTx, h) ==
    LET jig == IF spendTx = NoTx THEN NoJig ELSE findJigVout(spendTx)
    IN  IF jig = NoJig
          THEN TraceReturn(frm, h)
          ELSE TraceLoop(traceHop(frm, frm.spendingTxid, spendTx, jig), h)

SpendPcs == {"spend1", "tspend"}
TxPcs == {"resolve", "tx1", "ttx"}

\* The output a pending getSpender asks about, the transaction a pending
\* getTx asks for.
AskedTxid ==
    IF frm.pc \in {"resolve", "spend1"} THEN ledger.nfts[frm.num].lastTx
    ELSE IF frm.pc = "tspend" THEN frm.txid
    ELSE frm.spendingTxid

AskedVout == IF frm.pc = "spend1" THEN frm.lastVout ELSE frm.vout

\* wocGet returned result to getSpender/getTx, which returned to its caller.
WocReturn(result, h) ==
    CASE frm.pc = "resolve" -> AfterResolve(result, h)
      [] frm.pc = "spend1"  -> AfterSpend1(result, h)
      [] frm.pc = "tx1"     -> AfterTx1(result, h)
      [] frm.pc = "tspend"  -> AfterTraceSpend(result, h)
      [] frm.pc = "ttx"     -> AfterTraceTx(result, h)

----------------------------------------------------------------------------
(* The chain client                                                        *)

Statuses == {"200", "404", "429", "error"}   \* "error": other status, timeout

Rejected(status) == status \in {"429", "error"}

\* What the provider answers to the requests of one wocGet call: rejections
\* followed by an answer, or one rejection per allowed request.
Exchanges ==
    UNION {
      {rs \in [1..n -> Statuses] :
          /\ \A i \in 1..(n - 1) : Rejected(rs[i])
          /\ n <= MAX_RETRIES => ~Rejected(rs[n])}
      : n \in 1..(MAX_RETRIES + 1)}

\* wocGet, lines 101-134, on the answers rs, the delay being d and attempt
\* requests already made: the outcome, the delay it leaves, the backoff
\* sleeps, the number of rate-limit answers and the error thrown (that of
\* the request that failed last).
RECURSIVE wocLoop(_, _, _, _, _)
wocLoop(d, attempt, rs, sleeps, throttled) ==
    LET status == rs[attempt + 1]
    IN  IF status = "200"
          THEN [outcome |-> "ok", delay |-> onSuccess(d), requests |-> attempt + 1,
                sleeps |-> sleeps, throttled |-> throttled, error |-> "none"]
        ELSE IF status = "404"
          THEN [outcome |-> "null", delay |-> onSuccess(d), requests |-> attempt + 1,
                sleeps |-> sleeps, throttled |-> throttled, error |-> "none"]
        ELSE LET d1 == IF status = "429" THEN onThrottle(d) ELSE d
                 t1 == IF status = "429" THEN throttled + 1 ELSE throttled
             IN  IF attempt < MAX_RETRIES
                   THEN wocLoop(d1, attempt + 1, rs,
                                Append(sleeps, BASE_BACKOFF_MS * 2^attempt), t1)
                   ELSE [outcome |-> "throw", delay |-> d1, requests |-> attempt + 1,
                         sleeps |-> sleeps, throttled |-> t1, error |-> status]

\* A not-found answer is thrown to the caller as an error.
wocGet_NotFoundThrows(d, rs) ==
    LET r == wocLoop(d, 0, rs, << >>, 0)
    IN  IF r.outcome = "null" THEN [r EXCEPT !.outcome = "throw", !.error = "404"]
                              ELSE r

wocGet(d, rs) == wocLoop(d, 0, rs, << >>, 0)

\* The exchanges by the outcome they give wocGet.  A rate-limit answer
\* reaches the caller of wocGet as any other rejected request does and
\* differs from it in the delay only, which no caller reads but to sleep:
\* the driver is explored against a provider that answers or fails, the
\* chain client alone (ClientSpec) against every answer.
Answers ==
    [o \in {"200", "404", "throw"} |->
       {rs \in Exchanges :
           /\ IF o = "throw" THEN Rejected(rs[Len(rs)]) ELSE rs[Len(rs)] = o
           /\ \A i \in DOMAIN rs : rs[i] # "429"}]

----------------------------------------------------------------------------
(* Actions                                                                 *)

\* The burned flag is not looked at.
entry_NoBurnCheck(nft) ==
    IF nft.lastTx = Undefined THEN "skip"
    ELSE IF nft.lastVout # Undefined THEN "spend1"
    ELSE "resolve"

\* processNFT, lines 228-232 and 166: what the call does before its first
\* await - return 'skip' or 'unchanged', or ask the provider.
entry(nft) ==
    IF nft.lastTx = Undefined THEN "skip"
    ELSE IF nft.burned THEN "unchanged"
    ELSE IF nft.lastVout # Undefined THEN "spend1"
    ELSE "resolve"

\* One iteration of the main loop or of a retry loop starts: processNFT up
\* to its first provider request, lines 306-308/340 and 228-235.
Attempt ==
    /\ drv.phase \in {"main", "retry"}
    /\ frm.pc = "idle"
    /\ LET num == drv.list[drv.i]
           nft == ledger.nfts[num]
           d   == IF drv.phase = "main"
                    THEN [drv EXCEPT !.checked = drv.checked + 1] ELSE drv
           h   == [hist EXCEPT !.before = ledger, !.tries[num] = @ + 1]
       IN  /\ IF entry(nft) \in {"skip", "unchanged"}
                THEN Finish(ledger, d, h, num, entry(nft))
                ELSE /\ frm' = [Idle EXCEPT !.num = num,
                                            !.pc = entry(nft),
                                            !.lastVout = nft.lastVout]
                     /\ drv' = d
                     /\ hist' = h
                     /\ UNCHANGED << ledger, disk, out >>
           /\ UNCHANGED << callDelayMs, chain, call, fs, probe >>

\* The pending wocGet call meets the answers rs of the provider.
Call(rs) ==
    /\ frm.pc # "idle"
    /\ callDelayMs' = wocGet(callDelayMs, rs).delay
    /\ UNCHANGED << call, fs, probe >>

Met(faults) == [hist EXCEPT !.faults = @ + faults]

\* getSpender/getTx returned and its caller sleeps callDelayMs before it
\* goes on (lines 168, 185, 191, 236, 242): the time since the request
\* ended.
Paced(h, rs) == [h EXCEPT !.pause = wocGet(callDelayMs, rs).delay]

\* wocGet threw after its last request (line 130): the error unwinds
\* through the sleep of the caller to the catch of the driver.
Unpaced(h) == [h EXCEPT !.pause = 0]

\* wocGet returns the provider's data (a 200 answer): the spender of the
\* output asked about, or the transaction asked for.
GetFound ==
    \E rs \in Answers["200"] :
       /\ Call(rs)
       /\ LET c == chain[frm.num]
          IN  \/ /\ frm.pc \in SpendPcs
                 /\ IsSpent(c, AskedTxid, AskedVout)
                 /\ UNCHANGED chain
                 /\ WocReturn(AskedTxid + 1, Paced(hist, rs))
              \/ /\ frm.pc \in SpendPcs
                 /\ IsOpenTip(c, AskedTxid, AskedVout)
                 /\ Spends(chain) < MaxSpends
                 /\ \E k \in TxKinds :
                       chain' = [chain EXCEPT ![frm.num].txs = Append(c.txs, k)]
                 /\ WocReturn(AskedTxid + 1, Paced(hist, rs))
              \/ /\ frm.pc \in TxPcs
                 /\ HasTx(c, AskedTxid)
                 /\ UNCHANGED chain
                 /\ WocReturn(TxAt(c, AskedTxid), Paced(hist, rs))

\* wocGet returns null (a 404 answer) to getSpender: the output is unspent.
GetNull ==
    \E rs \in Answers["404"] :
       /\ Call(rs)
       /\ LET c == chain[frm.num]
          IN  /\ frm.pc \in SpendPcs
              /\ ~IsSpent(c, AskedTxid, AskedVout)
              /\ chain' = IF IsOpenTip(c, AskedTxid, AskedVout)
                            THEN [chain EXCEPT ![frm.num].more = "end"]
                            ELSE chain
              /\ WocReturn(Undefined, Paced(hist, rs))

\* wocGet returns null (a 404 answer) to getTx: the provider does not have
\* the transaction.
GetNoTx ==
    \E rs \in Answers["404"] :
       /\ Call(rs)
       /\ frm.pc \in TxPcs
       /\ hist.faults < MaxFaults
       /\ UNCHANGED chain
       /\ WocReturn(NoTx, Paced(Met(1), rs))

\* wocGet throws after MAX_RETRIES + 1 rejected requests: the error passes
\* through processNFT to the catch of the driver, lines 321-325/348-351.
GetThrows ==
    \E rs \in Answers["throw"] :
       /\ Call(rs)
       /\ hist.faults < MaxFaults
       /\ UNCHANGED chain
       /\ Finish(ledger, drv, Unpaced(Met(1)), frm.num, "error")

NoOut ==
    [printed |-> FALSE, checked |-> 0, changed |-> 0, burned |-> 0,
     totalBurned |-> 0, errors |-> 0, owners |-> 0, unresolved |-> << >>]

StartDrv(l, pass) ==
    [phase |-> "main", list |-> SortedSeq(DOMAIN l.nfts), i |-> 1, round |-> 0,
     checked |-> 0, changed |-> 0, burned |-> 0, errors |-> 0,
     failedNFTs |-> << >>, pass |-> pass]

\* Bookkeeping for the properties: the ledger and the revealed chains when
\* the pass started, the ledger when the current attempt started, the
\* failed attempts and the last outcome per asset, the time slept since
\* the last provider request of the process ended (Undefined before its
\* first request).
StartHist(l, c, faults) ==
    [start |-> l, chain |-> c, before |-> l, fails |-> {},
     tries |-> [n \in DOMAIN l.nfts |-> 0],
     res |-> [n \in DOMAIN l.nfts |-> "pending"],
     faults |-> faults, pause |-> Undefined]

\* The scheduler runs the refresh again: the process starts from the file.
NewPass ==
    /\ drv.phase = "done"
    /\ drv.pass < MaxPasses
    /\ ledger' = disk
    /\ callDelayMs' = INITIAL_DELAY_MS
    /\ drv' = StartDrv(disk, drv.pass + 1)
    /\ frm' = Idle
    /\ out' = NoOut
    /\ hist' = StartHist(disk, chain, hist.faults)
    /\ UNCHANGED << disk, chain, call, fs, probe >>

----------------------------------------------------------------------------
(* Initial states: a ledger as index-owners.cjs and the lastVout backfill  *)
(* leave it                                                                *)

Nums == {1, 2}

Unindexed ==
    [owner |-> Null, lastTx |-> Undefined, lastVout |-> Undefined,
     transfers |-> << >>, burned |-> FALSE, burnTx |-> Undefined]

Indexed(owner, lastVout) ==
    [owner |-> owner, lastTx |-> 1, lastVout |-> lastVout,
     transfers |-> << Event(1, "mint", Null, owner, Undefined) >>,
     burned |-> FALSE, burnTx |-> Undefined]

\* The owner index of a set of records, built as index-owners.cjs builds it.
OwnersOf(nfts) ==
    LET held(a) == {n \in DOMAIN nfts : nfts[n].owner = a}
    IN  [a \in {x \in Addrs : held(x) # {}} |-> SortedSeq(held(a))]

\* The records the refresh starts from: asset 1 is indexed, with its
\* lastVout backfilled or not; asset 2 is indexed or was skipped by the
\* indexer (no mint found).
InitRecords ==
    [n \in Nums |-> IF n = 1 THEN {Indexed("A", 1), Indexed("B", Undefined)}
                             ELSE {Unindexed, Indexed("A", 1)}]

\* The transaction at the recorded position pays dust to the recorded
\* owner; where lastVout was never resolved it may be unclassifiable.
InitChains(r) ==
    IF r.lastTx = Undefined THEN {[txs |-> << >>, more |-> "end"]}
    ELSE {[txs |-> << r.owner >>, more |-> "open"]}
         \cup (IF r.lastVout = Undefined
                 THEN {[txs |-> << "sweep" >>, more |-> "end"]} ELSE {})

NoProbe ==
    [tx |-> [blockheight |-> Undefined, vout |-> << >>], done |-> FALSE,
     jig |-> NoJig,
     traced |-> [newVout |-> Undefined, newAddr |-> Null, isOrderLock |-> FALSE],
     backfilled |-> Undefined]

NoCall ==
    [before |-> 0, rs |-> << >>, outcome |-> "none", requests |-> 0,
     sleeps |-> << >>, error |-> "none"]

Start(l, c) ==
    /\ ledger = l
    /\ disk = l
    /\ callDelayMs = INITIAL_DELAY_MS
    /\ chain = c
    /\ drv = StartDrv(l, 1)
    /\ frm = Idle
    /\ out = NoOut
    /\ hist = StartHist(l, c, 0)
    /\ call = NoCall
    /\ fs = "ok"
    /\ probe = NoProbe

LedgerOf(nfts) == [nfts |-> nfts, owners |-> OwnersOf(nfts)]

Init ==
    \E nfts \in [Nums -> UNION {InitRecords[n] : n \in Nums}] :
       \E c \in [Nums -> UNION {InitChains(nfts[n]) : n \in Nums}] :
          /\ \A n \in Nums : nfts[n] \in InitRecords[n]
          /\ \A n \in Nums : c[n] \in InitChains(nfts[n])
          /\ Start(LedgerOf(nfts), c)

Next ==
    \/ Attempt
    \/ GetFound
    \/ GetNull
    \/ GetNoTx
    \/ GetThrows
    \/ NewPass

Spec == Init /\ [][Next]_vars


----------------------------------------------------------------------------
(* One asset on a chain of spends that never reaches an unspent output     *)

InitLong ==
    \E r \in {Indexed("A", 1), Indexed("B", Undefined)} :
       \E k \in CycKinds :
          Start(LedgerOf([n \in {1} |-> r]),
                [n \in {1} |-> [txs |-> << r.owner >>, more |-> k]])

\* Every output of such a chain is spent and every transaction exists: the
\* provider answers a lookup or fails it.
LongNext ==
    \/ Attempt
    \/ GetFound
    \/ GetThrows
    \/ NewPass

LongSpec == InitLong /\ [][LongNext]_vars

----------------------------------------------------------------------------
(* The chain client alone: wocGet calls one after the other                *)

ClientCall ==
    /\ \E rs \in Exchanges :
          /\ call' = [before |-> callDelayMs, rs |-> rs,
                      outcome |-> wocGet(callDelayMs, rs).outcome,
                      requests |-> wocGet(callDelayMs, rs).requests,
                      sleeps |-> wocGet(callDelayMs, rs).sleeps,
                      error |-> wocGet(callDelayMs, rs).error]
          /\ callDelayMs' = wocGet(callDelayMs, rs).delay
    /\ UNCHANGED << ledger, disk, chain, drv, frm, out, hist, fs, probe >>

InitClient ==
    Start(LedgerOf([n \in {1} |-> Indexed("A", 1)]),
          [n \in {1} |-> [txs |-> << "A" >>, more |-> "open"]])

ClientNext == ClientCall

ClientSpec == InitClient /\ [][ClientNext]_vars

----------------------------------------------------------------------------
(* A ledger with enough assets for a periodic checkpoint, and a file       *)
(* system that may fail                                                    *)

BatchNums == 1..(SAVE_EVERY + 1)

\* Every asset was spent once since it was indexed, to another address;
\* one of them may have been swept instead.
InitBatch ==
    \E k \in [BatchNums -> {"B", "sweep"}] :
       /\ Cardinality({n \in BatchNums : k[n] = "sweep"}) <= 1
       /\ Start(LedgerOf([n \in BatchNums |-> Indexed("A", 1)]),
                [n \in BatchNums |-> [txs |-> << "A", k[n] >>, more |-> "end"]])

\* From now on a write of the ledger file fails (the file cannot be
\* written), or the next one is cut short by the process being killed (the
\* scheduler ends the refresh after an hour, line 38).
FsTurns ==
    /\ fs = "ok"
    /\ drv.phase \in {"main", "retry"}
    /\ fs' \in {"fails", "killed"}
    /\ UNCHANGED << ledger, disk, callDelayMs, chain, drv, frm, out, hist, call,
                    probe >>

BatchNext ==
    \/ Attempt
    \/ GetFound
    \/ GetNull
    \/ FsTurns

BatchSpec == InitBatch /\ [][BatchNext]_vars

----------------------------------------------------------------------------
(* The classifier and its copies alone, on any transaction                 *)

ProbeValues ==
    {0, DUST_MAX_SAT, DUST_MAX_SAT + 1, ORDERLOCK_MAX_SAT, ORDERLOCK_MAX_SAT + 1}

\* The outputs a transaction may have at index n.
ProbeOutputs(n) ==
    {Output(n, op, ty, v, a) :
        op \in BOOLEAN, ty \in {"nonstandard", "pubkeyhash"},
        v \in ProbeValues, a \in {Null, "A"}}

\* The transaction to classify has no output yet.
InitClass ==
    Start(LedgerOf([n \in {1} |-> Indexed("A", 1)]),
          [n \in {1} |-> [txs |-> << "A" >>, more |-> "open"]])

\* The transaction to classify has one more output.
Draw ==
    /\ ~probe.done
    /\ Len(probe.tx.vout) < MaxOuts
    /\ \E x \in ProbeOutputs(Len(probe.tx.vout)) :
          probe' = [probe EXCEPT !.tx.vout = Append(@, x)]
    /\ UNCHANGED << ledger, disk, callDelayMs, chain, drv, frm, out, hist, call, fs >>

\* The three copies of the classifier are given the transaction.
Classify ==
    /\ ~probe.done
    /\ probe' = [probe EXCEPT !.done = TRUE,
                              !.jig = findJigVout(probe.tx),
                              !.traced = traceNFT_classify(probe.tx),
                              !.backfilled = backfill_findJigVout(probe.tx)]
    /\ UNCHANGED << ledger, disk, callDelayMs, chain, drv, frm, out, hist, call, fs >>

ClassNext == Draw \/ Classify

ClassSpec == InitClass /\ [][ClassNext]_vars

----------------------------------------------------------------------------
(* A ledger as the indexer left it, on a chain that has stopped changing   *)

\* The loop of traceNFT, index-owners.cjs lines 67-128, on the chain c.
RECURSIVE traceNFTLoop(_, _)
traceNFTLoop(c, f) ==
    IF ~(f.hops < HOP_CEILING) THEN f
    ELSE IF ~IsSpent(c, f.currentTxid, f.currentVout) THEN f
    ELSE LET spendingTxid == f.currentTxid + 1
             spendTx == TxAt(c, spendingTxid)
             j     == traceNFT_classify(spendTx)
             moved == ~j.isOrderLock /\ j.newAddr # Null /\ j.newAddr # f.currentAddr
             f1    == [f EXCEPT !.hops = @ + 1]
         IN  IF j.newVout = Undefined THEN f1
             ELSE traceNFTLoop(c,
                    [f1 EXCEPT
                       !.transfers = IF moved
                                       THEN Append(@, Event(spendingTxid, "send",
                                                            f.currentAddr, j.newAddr,
                                                            spendTx.blockheight))
                                       ELSE @,
                       !.currentAddr = IF moved THEN j.newAddr ELSE @,
                       !.currentVout = j.newVout,
                       !.currentTxid = spendingTxid])

\* traceNFT, index-owners.cjs lines 57-131: the trace of the chain c from
\* the mint, which is transaction 1 of c.
traceNFT(c) ==
    LET f == traceNFTLoop(c,
               [currentTxid |-> 1, currentVout |-> NFT_VOUT,
                currentAddr |-> MINTING_ADDR,
                transfers |-> << Event(1, "mint", Null, MINTING_ADDR, Undefined) >>,
                hops |-> 0])
    IN  [owner |-> f.currentAddr, transfers |-> f.transfers, hops |-> f.hops]

\* The record the indexer writes from the trace, index-owners.cjs lines
\* 152-155: lastTx is the transaction of the last event.
indexRecord(c) ==
    LET result == traceNFT(c)
    IN  [owner |-> result.owner,
         lastTx |-> result.transfers[Len(result.transfers)].txid,
         lastVout |-> Undefined,
         transfers |-> result.transfers,
         burned |-> FALSE, burnTx |-> Undefined]

\* The lastVout backfill script, lines 64-72 of the script.
backfill(r, c) ==
    LET vout == backfill_findJigVout(TxAt(c, r.lastTx))
    IN  IF vout = Undefined THEN r ELSE [r EXCEPT !.lastVout = vout]

\* The spends that follow a mint, k of them: a sweep ends the chain.
RECURSIVE ConvTails(_)
ConvTails(k) ==
    IF k = 0 THEN {<< >>}
    ELSE {Append(t, x) : t \in {u \in ConvTails(k - 1) : ~Contains(u, "sweep")},
                         x \in TxKinds}

\* The asset was indexed when its chain had its first p transactions, its
\* lastVout was backfilled or not, and the chain is now whole: the last
\* state output is unspent or a sweep ended the chain.
InitConv ==
    \E m \in MintKinds : \E k \in 0..MaxSpends : \E t \in ConvTails(k) :
       \E p \in 1..(k + 1) : \E b \in BOOLEAN :
          LET txs  == << m >> \o t
              seen == [txs |-> SubSeq(txs, 1, p), more |-> "end"]
              r    == IF b THEN backfill(indexRecord(seen), seen)
                           ELSE indexRecord(seen)
          IN  Start(LedgerOf([n \in {1} |-> r]),
                    [n \in {1} |-> [txs |-> txs, more |-> "end"]])

\* The provider answers every request.
ConvNext ==
    \/ Attempt
    \/ GetFound
    \/ GetNull
    \/ NewPass

ConvSpec == InitConv /\ [][ConvNext]_vars

----------------------------------------------------------------------------
(* Properties                                                              *)

Ids == DOMAIN ledger.nfts

\* l lists id under address a exactly when the record of id has owner a.
Consistent(l) ==
    \A a \in Addrs \cup DOMAIN l.owners : \A id \in DOMAIN l.nfts :
       (a \in DOMAIN l.owners /\ Contains(l.owners[a], id)) <=> l.nfts[id].owner = a

\* C1 - Owner-index consistency: the ledger was loaded consistent, and in
\* every state of a pass (its end included) the in-memory ledger and the
\* last snapshot saveLedger wrote list an asset under an address exactly
\* when the asset's record names that address as owner.
C1_IndexConsistency == Consistent(ledger) /\ Consistent(disk)

\* A pass ended in which an asset changed hands and joined another asset
\* in the list of its new owner.
C1_Witness ==
    /\ drv.phase = "done"
    /\ \E n \in Ids : \E m \in Ids \ {n} :
          /\ ledger.nfts[n].owner # hist.start.nfts[n].owner
          /\ ledger.nfts[m].owner = ledger.nfts[n].owner
          /\ disk = ledger

\* C2 - Monotonic history: no step of the refresh (an attempt that settles
\* or fails, a retry round, a checkpoint, the next pass loading the file)
\* removes, rewrites or reorders a transfer event: the transfers of every
\* asset, in memory and in the file, only grow at the end.
C2_MonotonicHistory ==
    [][\A n \in Ids :
          /\ IsPrefix(ledger.nfts[n].transfers, ledger'.nfts[n].transfers)
          /\ IsPrefix(disk.nfts[n].transfers, disk'.nfts[n].transfers)
          /\ IsPrefix(hist'.start.nfts[n].transfers, ledger'.nfts[n].transfers)]_vars

\* A second pass extended a history that the first pass had extended.
C2_Witness ==
    /\ drv.pass = 2
    /\ \E n \in Ids :
          /\ Len(hist.start.nfts[n].transfers) > 1
          /\ Len(ledger.nfts[n].transfers) > Len(hist.start.nfts[n].transfers)

\* C3 - Burn finality: once an asset is burned, no step changes its owner,
\* transfers or burned flag, and no step leaves a provider request pending
\* for it.
C3_BurnFinality ==
    [][\A n \in Ids :
          ledger.nfts[n].burned =>
             /\ ledger'.nfts[n].owner = ledger.nfts[n].owner
             /\ ledger'.nfts[n].transfers = ledger.nfts[n].transfers
             /\ ledger'.nfts[n].burned
             /\ ~(frm'.pc # "idle" /\ frm'.num = n)]_vars

\* An asset that was burned when the pass loaded the ledger has been
\* visited by this pass.
C3_Witness ==
    /\ drv.pass = 2
    /\ \E n \in Ids : hist.start.nfts[n].burned /\ hist.res[n] = "unchanged"

\* C4 - Idempotence: when a pass has run after another with a provider
\* that answered every request, on chains that did not change since the
\* second pass started, and no attempt of the second pass failed, then the
\* second pass left the ledger as it found it and every asset resolved to
\* 'unchanged' (or was skipped as never indexed).
C4_Idempotence ==
    ( /\ drv.phase = "done"
      /\ drv.pass = 2
      /\ hist.faults = 0
      /\ chain = hist.chain
      /\ \A n \in Ids : hist.res[n] # "error" )
    => /\ ledger = hist.start
       /\ \A n \in Ids : hist.res[n] \in {"unchanged", "skip"}

\* C5 - Tracer termination: while traceForward runs, the hop count never
\* exceeds the ceiling; a step of the loop either ends the trace, or asks
\* for the next spending transaction with the hop count increased by one,
\* or asks for the next spender with the hop count it had; and on a chain
\* of spends without an unspent output a trace that returns, returns with
\* the hop count at the ceiling.
C5_TracerTermination ==
    [][/\ frm'.pc \in {"tspend", "ttx"} => frm'.hops <= HOP_CEILING
       /\ frm.pc = "tspend" =>
             \/ frm'.pc = "idle"
             \/ frm'.pc = "ttx" /\ frm'.hops = frm.hops + 1
       /\ frm.pc = "ttx" =>
             \/ frm'.pc = "idle"
             \/ frm'.pc = "tspend" /\ frm'.hops = frm.hops
                                   /\ frm.hops < HOP_CEILING
       /\ ( /\ frm.pc \in {"tspend", "ttx"}
            /\ frm'.pc = "idle"
            /\ hist'.res[frm.num] = "changed" )
          => frm.pc = "ttx" /\ frm.hops = HOP_CEILING]_vars

\* A trace on a never-ending chain returned: the record advanced by the
\* first spend and by as many hops as the ceiling allows.
C5_Witness ==
    \E n \in Ids :
       /\ hist.res[n] = "changed"
       /\ chain[n].more \in CycKinds
       /\ ledger.nfts[n].lastTx = hist.start.nfts[n].lastTx + 1 + HOP_CEILING

\* The recorded output of asset n was spent into an escrow output and that
\* into a dust output to an address, which is unspent; the provider has
\* answered every request, and the pass has attempted n.
EscrowCase(n) ==
    LET r0 == hist.start.nfts[n]
        c  == chain[n]
    IN  /\ hist.faults = 0
        /\ hist.res[n] \notin {"pending", "skip"}
        /\ ~r0.burned
        /\ Len(c.txs) = r0.lastTx + 2
        /\ c.txs[r0.lastTx + 1] = "lock"
        /\ c.txs[r0.lastTx + 2] \in Addrs
        /\ c.more = "end"

\* C6 - Escrow passthrough: in that case the attempt ends 'changed' with
\* the cursor on the dust output; when the address differs from the
\* recorded owner, exactly one event is appended, a send from the recorded
\* owner to the address, the owner is the address and the asset has moved
\* to the address's list; when the address is the recorded owner, no event
\* is appended and the owner stays.
C6_EscrowPassthrough ==
    \A n \in Ids :
       EscrowCase(n) =>
          LET r0 == hist.start.nfts[n]
              r  == ledger.nfts[n]
              t  == r0.lastTx + 2
              b  == chain[n].txs[t]
          IN  /\ hist.res[n] = "changed"
              /\ r.lastTx = t
              /\ r.owner = b
              /\ ~r.burned
              /\ Contains(ledger.owners[b], n)
              /\ \A a \in DOMAIN ledger.owners \ {b} : ~Contains(ledger.owners[a], n)
              /\ r.transfers =
                   IF b # r0.owner
                     THEN Append(r0.transfers, Event(t, "send", r0.owner, b, t))
                     ELSE r0.transfers

\* The escrow was released to another address than the recorded owner.
C6_Witness ==
    \E n \in Ids :
       /\ EscrowCase(n)
       /\ chain[n].txs[hist.start.nfts[n].lastTx + 2] # hist.start.nfts[n].owner
       /\ ledger.nfts[n].owner # hist.start.nfts[n].owner

\* C7 - Destruction: when an attempt of this pass, with a provider that
\* answered every request, came to a spending transaction without a state
\* output (the first spend of the recorded output or a later one), the
\* asset is burned, burnTx is that transaction, the last event is the one
\* burn event of the history, with the owner as recorded, and the asset is
\* in its owner's list.
C7_Destruction ==
    \A n \in Ids :
       LET r0 == hist.start.nfts[n]
           r  == ledger.nfts[n]
           c  == chain[n]
           t  == Len(c.txs)
           burns == {i \in DOMAIN r.transfers : r.transfers[i].type = "burn"}
       IN  ( /\ hist.faults = 0
             /\ hist.res[n] \in {"changed", "burned"}
             /\ t > r0.lastTx
             /\ c.txs[t] = "sweep" )
           => /\ r.burned
              /\ r.burnTx = t
              /\ burns = {Len(r.transfers)}
              /\ r.transfers[Len(r.transfers)] = Event(t, "burn", r.owner, Null, t)
              /\ Contains(ledger.owners[r.owner], n)

\* C8 as stated - Throttled provider: a call answered by two rate-limit
\* responses and then a success returns the result, and the delay after
\* the call is greater than the delay before it.
C8_DelayIncreased ==
    call.rs = << "429", "429", "200" >>
       => call.outcome = "ok" /\ callDelayMs > call.before

\* C8 - Throttled provider: a call answered by two rate-limit responses
\* and then a success returns the result; the delay after the call is the
\* delay before it doubled twice under the cap of MAX_DELAY_MS and then
\* lowered by one step, which is greater than the delay before the call
\* when that was below MAX_DELAY_MS - DELAY_STEP_MS, equal to it at
\* MAX_DELAY_MS - DELAY_STEP_MS and lower at MAX_DELAY_MS.
C8_ThrottledCall ==
    call.rs = << "429", "429", "200" >>
       => /\ call.outcome = "ok"
          /\ callDelayMs = Max(MIN_DELAY_MS,
                               Min(MAX_DELAY_MS, 4 * call.before) - DELAY_STEP_MS)
          /\ call.before < MAX_DELAY_MS - DELAY_STEP_MS => callDelayMs > call.before
          /\ call.before = MAX_DELAY_MS - DELAY_STEP_MS => callDelayMs = call.before
          /\ call.before = MAX_DELAY_MS => callDelayMs < call.before

\* Such a call was made with the delay at its cap.
C8_Witness ==
    /\ call.rs = << "429", "429", "200" >>
    /\ call.before = MAX_DELAY_MS
    /\ call.outcome = "ok"

\* C9 - A failed attempt leaves the good values: a step in which
\* processNFT throws leaves the owner index and every record as they were
\* when the attempt started, but for the lastVout of the asset attempted,
\* which resolveLastVout may have filled in.
C9_FailedAttemptFrame ==
    [][( /\ frm.pc # "idle"
         /\ frm'.pc = "idle"
         /\ hist'.res[frm.num] = "error" )
       => /\ ledger'.owners = hist.before.owners
          /\ \A n \in Ids \ {frm.num} : ledger'.nfts[n] = hist.before.nfts[n]
          /\ ledger'.nfts[frm.num] =
                [hist.before.nfts[frm.num] EXCEPT
                    !.lastVout = ledger'.nfts[frm.num].lastVout]]_vars

\* An attempt failed in mid-trace: the provider had shown two spends
\* beyond the recorded position, which the record still holds.
C9_Witness ==
    /\ drv.pass = 1
    /\ \E n \in Ids :
          /\ hist.res[n] = "error"
          /\ hist.start.nfts[n].lastTx # Undefined
          /\ Len(chain[n].txs) >= hist.start.nfts[n].lastTx + 2
          /\ ledger.nfts[n].lastTx = hist.start.nfts[n].lastTx

\* The assets whose attempts of the main pass and of both retry rounds
\* failed in this pass.
FailedThrice ==
    {n \in Ids : \A round \in 0..RETRY_ROUNDS : << n, round >> \in hist.fails}

\* C10 - No silent drop: the ids the final summary lists as unresolved are
\* the assets that failed in the main pass and in both retry rounds, and
\* an asset that failed in the main pass has either settled in a retry
\* round or is listed.
C10_NoSilentDrop ==
    out.printed =>
       /\ {out.unresolved[i] : i \in DOMAIN out.unresolved} = FailedThrice
       /\ \A n \in Ids :
             << n, 0 >> \in hist.fails =>
                \/ hist.res[n] # "error"
                \/ Contains(out.unresolved, n)

\* A summary that lists an asset as unresolved, after a pass in which
\* another asset failed in the main pass and settled in a retry round.
C10_Witness ==
    /\ out.printed
    /\ out.unresolved # << >>
    /\ \E n \in Ids :
          /\ << n, 0 >> \in hist.fails
          /\ hist.res[n] # "error"

\* What is left of the pass: the retry rounds, the assets of the current
\* list and the provider requests of the current attempt that may still
\* come, as one number.
AttemptRank ==
    CASE frm.pc = "idle"    -> 2 * HOP_CEILING + 5
      [] frm.pc = "resolve" -> 2 * HOP_CEILING + 4
      [] frm.pc = "spend1"  -> 2 * HOP_CEILING + 3
      [] frm.pc = "tx1"     -> 2 * HOP_CEILING + 2
      [] frm.pc = "tspend"  -> 2 * (HOP_CEILING - frm.hops) + 1
      [] frm.pc = "ttx"     -> 2 * (HOP_CEILING - frm.hops) + 2

PassRank ==
    LET perItem  == 2 * HOP_CEILING + 6
        perRound == perItem * (Cardinality(Ids) + 1)
    IN  (RETRY_ROUNDS - drv.round) * perRound
          + (Len(drv.list) - drv.i + 1) * perItem
          + AttemptRank

\* The guards of the steps of a pass: the driver is about to attempt an
\* asset, or a request is pending that the provider can answer or fail.
Runnable ==
    \/ frm.pc = "idle" /\ drv.phase \in {"main", "retry"}
                       /\ drv.i \in DOMAIN drv.list
    \/ frm.pc \in SpendPcs
    \/ frm.pc \in TxPcs /\ HasTx(chain[frm.num], AskedTxid)

\* C11 - Failure isolation and bounded retry: the main pass attempts every
\* asset once, in ascending order of id, whatever the earlier attempts came
\* to; a retry round attempts only assets that failed in the round before;
\* no asset is attempted more than 1 + RETRY_ROUNDS times in a pass; and
\* every pass comes to its summary and final save with every asset
\* attempted: a pass that has not ended has a step to take, and every step
\* of it ends the pass or lowers a natural number.
C11_IsolationAndBoundedRetry ==
    /\ [][drv'.pass = drv.pass =>
            /\ \A n \in Ids :
                  hist'.tries[n] # hist.tries[n] =>
                     /\ hist'.tries[n] = hist.tries[n] + 1
                     /\ drv.phase = "main" =>
                           \A m \in Ids :
                              hist.tries[m] = IF m < n THEN 1 ELSE 0
                     /\ drv.phase = "retry" =>
                           << n, drv.round - 1 >> \in hist.fails
            /\ drv'.phase = "done" \/ PassRank' < PassRank]_vars
    /\ [](/\ \A n \in Ids : hist.tries[n] <= 1 + RETRY_ROUNDS
          /\ PassRank >= 0
          /\ drv.phase # "done" => Runnable
          /\ drv.phase = "done" =>
                /\ out.printed
                /\ disk = ledger
                /\ \A n \in Ids : hist.tries[n] >= 1)

\* A pass ended in which an asset failed three times and an asset after it
\* in the order was found changed.
C11_Witness ==
    /\ drv.phase = "done"
    /\ \E n \in Ids : \E m \in Ids :
          /\ n < m
          /\ hist.tries[n] = 1 + RETRY_ROUNDS
          /\ hist.res[n] = "error"
          /\ hist.res[m] = "changed"

\* C12 - Atomic checkpoint: whatever becomes of a checkpoint, the ledger
\* file holds after every step the complete document it held before or the
\* complete document being saved.
C12_AtomicCheckpoint == [][disk' = disk \/ disk' = ledger']_vars

\* The assets whose record in memory is not the one in the ledger file.
Unsaved == {n \in Ids : ledger.nfts[n] # disk.nfts[n]}

\* C13 - Bounded loss on crash: while the ledger file can be written, at
\* most SAVE_EVERY - 1 assets have an update in memory that the file does
\* not hold.
C13_BoundedLoss == fs = "ok" => Cardinality(Unsaved) <= SAVE_EVERY - 1

\* C14 - Ledger I/O failures are fatal: the retry queue of a pass that
\* goes on holds only assets whose processNFT threw - a failed write of
\* the ledger is not turned into the failure of an asset.
C14_WriteFailureFatal ==
    drv.phase \in {"main", "retry"} =>
       \A i \in DOMAIN drv.failedNFTs : hist.res[drv.failedNFTs[i]] = "error"

\* C15 - Position tracks history: in memory and in the ledger file, the
\* recorded position of every indexed asset is the transaction of the last
\* event of its transfers.
C15_PositionTracksHistory ==
    \A n \in Ids :
       /\ ledger.nfts[n].lastTx # Undefined =>
             ledger.nfts[n].transfers[Len(ledger.nfts[n].transfers)].txid
                = ledger.nfts[n].lastTx
       /\ disk.nfts[n].lastTx # Undefined =>
             disk.nfts[n].transfers[Len(disk.nfts[n].transfers)].txid
                = disk.nfts[n].lastTx

\* The holder after the first i events of ts: the 'to' of the last mint or
\* send among them.
RECURSIVE HolderAfter(_, _)
HolderAfter(ts, i) ==
    IF i = 0 THEN Null
    ELSE IF ts[i].type \in {"mint", "send"} THEN ts[i].to
    ELSE HolderAfter(ts, i - 1)

\* The chain of custody of a record has no gap.
GapFree(r) ==
    /\ \A i \in DOMAIN r.transfers :
          LET e == r.transfers[i]
          IN  /\ e.type \in {"send", "burn"} => e.from = HolderAfter(r.transfers, i - 1)
              /\ e.type = "send" => e.from # e.to
    /\ r.owner = HolderAfter(r.transfers, Len(r.transfers))

\* C16 - Gap-free chain of custody: the histories the ledger was loaded
\* with are well-formed, and in every state the history of every asset, in
\* memory and in the ledger file, is gap-free: a send or burn is from the
\* holder the events before it leave, a send changes the holder, and the
\* owner is the holder the whole history leaves.
C16_GapFreeCustody ==
    \A n \in Ids : GapFree(ledger.nfts[n]) /\ GapFree(disk.nfts[n])

\* An asset changed hands twice since it was indexed.
C16_Witness ==
    \E n \in Ids :
       /\ Len(ledger.nfts[n].transfers) >= 3
       /\ ledger.nfts[n].transfers[2].type = "send"
       /\ ledger.nfts[n].transfers[3].type = "send"
       /\ GapFree(hist.start.nfts[n])

\* C17 - Rate-limit responses do not consume the retry budget: a wocGet
\* call ends with an error only when MAX_RETRIES + 1 of its requests
\* failed otherwise than by a rate-limit response.
C17_ThrottleOutsideBudget ==
    call.outcome = "throw" =>
       Cardinality({i \in DOMAIN call.rs : call.rs[i] = "error"}) = MAX_RETRIES + 1

\* C18 - Cannot-verify is never treated as no-change: a step in which the
\* provider fails to produce the spending transaction asked for, at the
\* first hop or in the trace, ends the attempt as failed.
C18_CannotVerifyFails ==
    [][( /\ frm.pc \in {"tx1", "ttx"}
         /\ hist'.faults = hist.faults + 1 )
       => frm'.pc = "idle" /\ hist'.res[frm.num] = "error"]_vars

\* C19 - Hop ceiling is reported: an attempt whose trace ends at the hop
\* ceiling, the provider having answered, gives the driver an outcome
\* other than those of an attempt that reached the end of the chain, and
\* leaves the record on the chain at the last position traced, with the
\* owner traced.
C19_CeilingReported ==
    [][( /\ frm.pc = "ttx"
         /\ frm.hops = HOP_CEILING
         /\ frm'.pc = "idle"
         /\ hist'.faults = hist.faults )
       => /\ hist'.res[frm.num] \notin {"changed", "unchanged", "burned", "skip"}
          /\ ledger'.nfts[frm.num].lastTx = frm.spendingTxid
          /\ HasTx(chain[frm.num], ledger'.nfts[frm.num].lastTx)]_vars

\* The delay after the responses rs, from delay d, by the rule of the
\* claim.
RECURSIVE DelayAfter(_, _)
DelayAfter(d, rs) ==
    IF rs = << >> THEN d
    ELSE DelayAfter(
           CASE Head(rs) \in {"200", "404"} -> Max(MIN_DELAY_MS, d - DELAY_STEP_MS)
             [] Head(rs) = "429"           -> Min(MAX_DELAY_MS, 2 * d)
             [] OTHER                      -> d,
           Tail(rs))

C21_BoundedRetryBackoff ==
    call.outcome # "none" =>
       LET rs       == call.rs
           answered == {i \in DOMAIN rs : rs[i] \in {"200", "404"}}
       IN  /\ call.requests <= MAX_RETRIES + 1
           /\ call.requests = Len(rs)
           /\ call.sleeps = [k \in 1..(call.requests - 1) |->
                                BASE_BACKOFF_MS * 2^(k - 1)]
           /\ answered # {} =>
                 /\ answered = {call.requests}
                 /\ call.outcome = IF rs[call.requests] = "200" THEN "ok" ELSE "null"
                 /\ call.error = "none"
           /\ answered = {} =>
                 /\ call.requests = MAX_RETRIES + 1
                 /\ call.outcome = "throw"
                 /\ call.error = rs[MAX_RETRIES + 1]

\* A call failed four times, last by a rate-limit answer, after the three
\* backoff sleeps.
C21_Witness ==
    /\ call.rs = << "error", "429", "error", "429" >>
    /\ call.outcome = "throw"
    /\ call.error = "429"
    /\ call.sleeps = << 2000, 4000, 8000 >>

\* C22 - Pacing between consecutive requests: one provider request is
\* pending at a time, and a step that starts a provider request - the
\* first of an attempt, or the next one of the attempt whose request just
\* returned - starts it after the process has slept, since the request
\* before it ended, at least the adaptive delay, which is at least
\* MIN_DELAY_MS.
C22_PacedRequests ==
    [][( /\ frm'.pc # "idle"
         /\ frm'.pc # frm.pc )
       => IF frm.pc = "idle"
            THEN \/ hist.pause = Undefined
                 \/ hist.pause >= callDelayMs /\ callDelayMs >= MIN_DELAY_MS
            ELSE hist'.pause >= callDelayMs' /\ callDelayMs' >= MIN_DELAY_MS]_vars

\* C23 - Classifier result: findJigVout returns the first output in list
\* order that is no metadata output, has a non-standard script and a value
\* of at most ORDERLOCK_MAX_SAT, as an order lock without address, whatever
\* comes before it; failing that, the first output that is no metadata
\* output and has an address and a value in (0, DUST_MAX_SAT], with that
\* address; failing that, null.  The classifier inlined in traceNFT and
\* the one of the backfill script select the same output index, and
\* traceNFT the same address and order-lock flag.
C23_ClassifierResult ==
    probe.done =>
       LET o      == probe.tx.vout
           lock(i) == /\ ~o[i].opReturn /\ o[i].type = "nonstandard"
                      /\ o[i].value <= ORDERLOCK_MAX_SAT
           dust(i) == /\ ~o[i].opReturn /\ o[i].addr # Null
                      /\ o[i].value > 0 /\ o[i].value <= DUST_MAX_SAT
           j      == probe.jig
       IN  /\ \A i \in DOMAIN o :
                 (lock(i) /\ \A k \in 1..(i - 1) : ~lock(k)) =>
                    j = [vout |-> o[i].n, addr |-> Null, isOrderLock |-> TRUE]
           /\ \A i \in DOMAIN o :
                 ( /\ \A k \in DOMAIN o : ~lock(k)
                   /\ dust(i) /\ \A k \in 1..(i - 1) : ~dust(k) ) =>
                    j = [vout |-> o[i].n, addr |-> o[i].addr, isOrderLock |-> FALSE]
           /\ (\A k \in DOMAIN o : ~lock(k) /\ ~dust(k)) => j = NoJig
           /\ probe.traced.newVout = j.vout
           /\ probe.traced.newAddr = j.addr
           /\ probe.traced.isOrderLock = j.isOrderLock
           /\ probe.backfilled = j.vout

\* A transaction with a dust output to an address before an order lock
\* was classified: the order lock was selected.
C23_Witness ==
    /\ probe.done
    /\ Len(probe.tx.vout) = 2
    /\ IsDustOut(probe.tx.vout[1])
    /\ ~IsOrderLockOut(probe.tx.vout[1])
    /\ IsOrderLockOut(probe.tx.vout[2])
    /\ probe.jig = [vout |-> 1, addr |-> Null, isOrderLock |-> TRUE]

\* C24 - Summary counts match outcomes: in the final summary of a pass,
\* 'Changed' is the number of assets whose attempt, in the main pass or in
\* a retry round, ended 'changed', 'Burned (this run)' is the number of
\* assets marked burned in this pass, in the main pass or in a retry
\* round, and 'Errors' is the number of assets whose last attempt failed.
C24_SummaryCounts ==
    out.printed =>
       /\ out.changed = Cardinality({n \in Ids : hist.res[n] = "changed"})
       /\ out.burned = Cardinality({n \in Ids : /\ ledger.nfts[n].burned
                                                /\ ~hist.start.nfts[n].burned})
       /\ out.errors = Cardinality({n \in Ids : hist.res[n] = "error"})

\* C25 - Convergence to the true owner: on a chain that has stopped
\* changing and is shorter than the hop ceiling, with a provider that
\* answered every request, when the second pass (or a later one) has
\* ended, an asset whose chain ends in a sweep is burned, any other asset
\* is not burned and its recorded position is the unspent state output at
\* the end of its chain, and the recorded owner is the owner that
\* traceNFT gives for the whole chain from the mint.
C25_Convergence ==
    ( /\ drv.phase = "done"
      /\ drv.pass >= 2
      /\ hist.faults = 0 )
    => \A n \in Ids :
          LET c == chain[n]
              r == ledger.nfts[n]
              L == Len(c.txs)
          IN  ( /\ c.more = "end"
                /\ L >= 1
                /\ c.txs[1] \in MintKinds
                /\ r.lastTx # Undefined )
              => /\ r.owner = traceNFT(c).owner
                 /\ IF c.txs[L] = "sweep"
                      THEN r.burned
                      ELSE /\ ~r.burned
                           /\ r.lastTx = L
                           /\ r.lastVout = StateVout(c, L)

\* C25 on the chains whose mint has no output before NFT_VOUT that the
\* classifier selects.
C25_PlainMint ==
    (\A n \in Ids : chain[n].txs # << >> /\ chain[n].txs[1] = "mint") => C25_Convergence

====
